---- MODULE Spec2Model ----
(***************************************************************************)
(* Model of ODataNode.execute (nodes/OdataNode/ODataNode.node.ts): the     *)
(* per-record loop that resolves credentials, builds the OData query and   *)
(* the header map, dispatches one request and appends the normalised       *)
(* response, together with its catch handler.                              *)
(*                                                                         *)
(* JavaScript strings that the code inspects character by character        *)
(* (header names, $select/$expand lists, the base URL) are sequences of    *)
(* one-character strings; other texts are opaque TLA+ strings.             *)
(* Calls into the host (getCredentials, getInputData) and into the odata   *)
(* and fetch libraries are nondeterministic choices over their outcomes.   *)
(* Not modelled: the resource path (line 428), the formBinaryData branch   *)
(* of parametersToKeyValue (header parameters carry no parameterType),     *)
(* and console output.                                                     *)
(***************************************************************************)
EXTENDS Integers, Sequences, FiniteSets, TLC

----------------------------------------------------------------------------
(* Bounds of the model *)

\* number of input records handed to execute
MaxItems == 2
\* largest array a response carries
MaxResp == 2
\* cap on loop iterations (the loop bound items.length can grow, see Catch)
MaxAttempts == MaxItems + 1

----------------------------------------------------------------------------
(* JavaScript values *)

Str(s)  == [t |-> "str",  s |-> s,    n |-> 0, b |-> FALSE]
Num(n)  == [t |-> "num",  s |-> <<>>, n |-> n, b |-> FALSE]
Bool(b) == [t |-> "bool", s |-> <<>>, n |-> 0, b |-> b]
Undefined == [t |-> "undef", s |-> <<>>, n |-> 0, b |-> FALSE]

\* JavaScript truthiness, as used by `if (x)`
Truthy(v) ==
    CASE v.t = "str"  -> Len(v.s) > 0
      [] v.t = "num"  -> v.n # 0
      [] v.t = "bool" -> v.b
      [] OTHER        -> FALSE

\* String.prototype.replace(/\ /g, '')
StripSpaces(s) == SelectSeq(s, LAMBDA c : c # " ")

\* one character of String.prototype.toLowerCase
LowerChar(c) ==
    CASE c = "A" -> "a"
      [] c = "X" -> "x"
      [] c = "T" -> "t"
      [] OTHER   -> c

ToLowerCase(s) == [i \in 1..Len(s) |-> LowerChar(s[i])]

----------------------------------------------------------------------------
(* JavaScript objects with insertion order: sequences of [k, v] entries *)

Keys(obj) == {obj[i].k : i \in 1..Len(obj)}

\* obj[key] = value
Put(obj, key, value) ==
    IF key \in Keys(obj)
      THEN [i \in 1..Len(obj) |->
              IF obj[i].k = key THEN [k |-> key, v |-> value] ELSE obj[i]]
      ELSE Append(obj, [k |-> key, v |-> value])

\* { ...a, ...b }
RECURSIVE Spread(_, _)
Spread(a, b) ==
    IF b = <<>> THEN a
    ELSE Spread(Put(a, Head(b).k, Head(b).v), Tail(b))

RECURSIVE keysToLowercaseAcc(_, _)
keysToLowercaseAcc(acc, entries) ==
    IF entries = <<>> THEN acc
    ELSE keysToLowercaseAcc(Put(acc, ToLowerCase(Head(entries).k), Head(entries).v),
                            Tail(entries))

keysToLowercase(headers) == keysToLowercaseAcc(<<>>, headers)

----------------------------------------------------------------------------
(* Errors: the fields of a thrown value that the catch handler inspects *)

NoIndex == -1

\* instanceof Error, with a message; no context, no response
MkError(msg) ==
    [isError |-> TRUE, message |-> msg, hasContext |-> FALSE,
     itemIndex |-> NoIndex, hasResponse |-> FALSE,
     status |-> "", statusText |-> "", data |-> "", dataIsString |-> FALSE]

\* new NodeOperationError(node, msg, { itemIndex })
NodeOperationError(msg, idx) ==
    [MkError(msg) EXCEPT !.hasContext = TRUE, !.itemIndex = idx]

\* a thrown value that is not an Error and has no message (e.g. a Response)
BareObject ==
    [MkError(<<>>) EXCEPT !.isError = FALSE]

\* an Error that carries the HTTP response it failed with
HttpError(msg, status, statusText, data, dataIsString) ==
    [MkError(msg) EXCEPT !.hasResponse = TRUE, !.status = status,
                         !.statusText = statusText, !.data = data,
                         !.dataIsString = dataIsString]

----------------------------------------------------------------------------
(* JSON texts the parameters and credentials can hold, and their parse *)

Parsed(obj) == [ok |-> TRUE, isNull |-> FALSE, obj |-> obj]
ParsedNull  == [ok |-> TRUE, isNull |-> TRUE,  obj |-> <<>>]
ParseFail   == [ok |-> FALSE, isNull |-> FALSE, obj |-> <<>>]

FilterText == <<"a", " ", "e", "q", " ", "1">>

\* JSON.parse on the texts the model feeds it
JSONParse(text) ==
    CASE text = "{}" -> Parsed(<<>>)
      [] text = "null" -> ParsedNull
      [] text = "{\"$top\":5}" -> Parsed(<<[k |-> "$top", v |-> Num(5)]>>)
      [] text = "{\"$filter\":\"b eq 2\",\"$count\":true}" ->
            Parsed(<<[k |-> "$filter", v |-> Str(<<"b", " ", "e", "q", " ", "2">>)],
                     [k |-> "$count", v |-> Bool(TRUE)]>>)
      [] text = "{\"UserName\":\"newuser\"}" ->
            Parsed(<<[k |-> "UserName", v |-> Str(<<"n", "e", "w">>)]>>)
      [] text = "{\"access_token\":\"tok\"}" ->
            Parsed(<<[k |-> "access_token", v |-> Str(<<"t", "o", "k">>)]>>)
      [] OTHER -> ParseFail

AuthorizationName == <<"A", "u", "t", "h", "o", "r", "i", "z", "a", "t", "i", "o", "n">>
LowerAuthorizationName == <<"a", "u", "t", "h", "o", "r", "i", "z", "a", "t", "i", "o", "n">>
TraceName == <<"X", "-", "T">>
LowerTraceName == <<"x", "-", "t">>

\* JSON texts that describe header objects (jsonHeaders, httpCustomAuth.json)
HeaderJSONParse(text) ==
    CASE text = "{}" -> Parsed(<<>>)
      [] text = "{\"X-T\":\"1\"}" -> Parsed(<<[k |-> TraceName, v |-> <<"1">>]>>)
      [] text = "{\"authorization\":\"u\"}" ->
            Parsed(<<[k |-> LowerAuthorizationName, v |-> <<"u">>]>>)
      [] text = "{\"X-T\":\"1\",\"x-t\":\"2\"}" ->
            Parsed(<<[k |-> TraceName, v |-> <<"1">>],
                     [k |-> LowerTraceName, v |-> <<"2">>]>>)
      [] OTHER -> ParseFail

\* jsonParse<IRequestOptionsSimplified>(json): the headers field of the blob
CustomAuthParse(text) ==
    CASE text = "{}" -> [ok |-> TRUE, hasHeaders |-> FALSE, headers |-> <<>>]
      [] text = "{\"headers\":{\"X-T\":\"k\"}}" ->
            [ok |-> TRUE, hasHeaders |-> TRUE,
             headers |-> <<[k |-> TraceName, v |-> <<"k">>]>>]
      [] text = "{\"headers\":{\"Authorization\":\"k\"}}" ->
            [ok |-> TRUE, hasHeaders |-> TRUE,
             headers |-> <<[k |-> AuthorizationName, v |-> <<"k">>]>>]
      [] OTHER -> [ok |-> FALSE, hasHeaders |-> FALSE, headers |-> <<>>]

\* text || fallback
OrElse(text, fallback) == IF text = "" THEN fallback ELSE text

----------------------------------------------------------------------------
(* Credentials as returned by getCredentials *)

NoCred ==
    [set |-> FALSE, tokenData |-> "none", user |-> "", password |-> "", json |-> ""]

\* tokenData: "none" (no oauthTokenData), "object" (already structured),
\* or the JSON text stored in it
OAuthCred(tokenData) == [NoCred EXCEPT !.set = TRUE, !.tokenData = tokenData]
BasicCred(user, password) ==
    [NoCred EXCEPT !.set = TRUE, !.user = user, !.password = password]
CustomCred(json) == [NoCred EXCEPT !.set = TRUE, !.json = json]

----------------------------------------------------------------------------
(* Header contribution of the credentials, lines 444-468 *)

HeadersOk(h) == [ok |-> TRUE, headers |-> h, error |-> MkError(<<>>)]
HeadersFail(e) == [ok |-> FALSE, headers |-> <<>>, error |-> e]

AuthHeaders(oAuth2Api, basicAuth, httpCustomAuth) ==
    IF oAuth2Api.set /\ oAuth2Api.tokenData # "none" THEN
        IF oAuth2Api.tokenData = "object"
          THEN HeadersOk(<<[k |-> AuthorizationName, v |-> <<"Bearer ", "tok">>]>>)
          ELSE IF JSONParse(oAuth2Api.tokenData).ok
                 THEN HeadersOk(<<[k |-> AuthorizationName, v |-> <<"Bearer ", "tok">>]>>)
                 ELSE HeadersFail(MkError(<<"Unexpected token">>))
    ELSE IF basicAuth.set THEN
        HeadersOk(<<[k |-> AuthorizationName,
                     v |-> <<"Basic ", "base64(", basicAuth.user, ":", basicAuth.password, ")">>]>>)
    ELSE IF httpCustomAuth.set THEN
        LET customAuth == CustomAuthParse(OrElse(httpCustomAuth.json, "{}")) IN
        IF ~customAuth.ok THEN HeadersFail(MkError(<<"Invalid Custom Auth JSON">>))
        ELSE IF customAuth.hasHeaders THEN HeadersOk(customAuth.headers)
        ELSE HeadersOk(<<>>)
    ELSE HeadersOk(<<>>)

\* headerParameters.filter((header) => header.name) folded by parametersToKeyValue
RECURSIVE parametersToKeyValue(_, _)
parametersToKeyValue(accumulator, params) ==
    IF params = <<>> THEN accumulator
    ELSE IF Head(params).name = <<>>
      THEN parametersToKeyValue(accumulator, Tail(params))
      ELSE parametersToKeyValue(Put(accumulator, Head(params).name, Head(params).value),
                                Tail(params))

\* lines 515-543: the additional headers merged over the auth contribution
MergeHeaders(authHeaders, p, itemIndex) ==
    IF ~p.sendHeaders THEN HeadersOk(authHeaders)
    ELSE IF p.specifyHeaders = "keypair" THEN
        HeadersOk(Spread(authHeaders,
                         keysToLowercase(parametersToKeyValue(<<>>, p.headerParameters))))
    ELSE IF p.specifyHeaders = "json" THEN
        IF ~HeaderJSONParse(p.jsonHeaders).ok
          THEN HeadersFail(NodeOperationError(<<"JSON parameter need to be an valid JSON">>,
                                              itemIndex))
          ELSE HeadersOk(Spread(authHeaders,
                                keysToLowercase(HeaderJSONParse(p.jsonHeaders).obj)))
    ELSE HeadersOk(Spread(authHeaders, keysToLowercase(<<>>)))

----------------------------------------------------------------------------
(* Query descriptor, lines 430-438 and 547-564 *)

\* the `if (...) query[...] = ...` chain over an empty query
ComposeQuery(p) ==
    LET q0 == <<>>
        q1 == IF Truthy(p.select)
                THEN Put(q0, "$select", Str(StripSpaces(p.select.s))) ELSE q0
        q2 == IF Truthy(p.filter)  THEN Put(q1, "$filter", p.filter) ELSE q1
        q3 == IF Truthy(p.orderby) THEN Put(q2, "$orderby", p.orderby) ELSE q2
        q4 == IF Truthy(p.expand)
                THEN Put(q3, "$expand", Str(StripSpaces(p.expand.s))) ELSE q3
        q5 == IF Truthy(p.top)  THEN Put(q4, "$top", p.top) ELSE q4
        q6 == IF Truthy(p.skip) THEN Put(q5, "$skip", p.skip) ELSE q5
        q7 == IF p.count # Undefined THEN Put(q6, "$count", p.count) ELSE q6
    IN q7

\* variant: the discrete fields are written over a non-empty raw query too
BuildQuery_MergesDiscrete(parsed, p) ==
    IF parsed.isNull \/ Len(parsed.obj) = 0
      THEN ComposeQuery(p)
      ELSE Spread(parsed.obj, ComposeQuery(p))

\* if (!query || !Object.keys(query).length) { compose } else keep the raw query
BuildQuery(parsed, p) ==
    IF parsed.isNull \/ Len(parsed.obj) = 0
      THEN ComposeQuery(p)
      ELSE parsed.obj

\* url.slice(-1) !== '/' ? url + '/' : url
NormalizeUrl(url) ==
    IF url = <<>> \/ url[Len(url)] # "/" THEN Append(url, "/") ELSE url

----------------------------------------------------------------------------
(* The body of the try block up to the verb switch, lines 420-564 *)

BuildFail(e) ==
    [ok |-> FALSE, error |-> e, method |-> "", url |-> <<>>, query |-> <<>>,
     data |-> <<>>, count |-> Undefined, headers |-> <<>>]

BuildRequest(p, oAuth2Api, basicAuth, httpCustomAuth, itemIndex) ==
    LET parsedQuery == JSONParse(OrElse(p.query, "{}"))
        parsedData  == JSONParse(OrElse(p.data, "{}"))
        auth        == AuthHeaders(oAuth2Api, basicAuth, httpCustomAuth)
        merged      == MergeHeaders(auth.headers, p, itemIndex)
    IN IF ~parsedQuery.ok THEN BuildFail(MkError(<<"Unexpected token">>))
       ELSE IF ~parsedData.ok THEN BuildFail(MkError(<<"Unexpected token">>))
       ELSE IF ~auth.ok THEN BuildFail(auth.error)
       ELSE IF ~merged.ok THEN BuildFail(merged.error)
       ELSE [ok |-> TRUE, error |-> MkError(<<>>), method |-> p.method,
             url |-> NormalizeUrl(p.url), query |-> BuildQuery(parsedQuery, p),
             data |-> parsedData.obj, count |-> p.count, headers |-> merged.headers]

----------------------------------------------------------------------------
(* Error message of the fail-fast branch, lines 620-646 *)

\* JSON.stringify(data, null, 2) of a structured body
Stringify(data) == <<"pretty(", data, ")">>

ErrorMessage(error) ==
    LET base == IF error.isError THEN error.message
                ELSE IF error.message # <<>> THEN error.message
                ELSE <<"An error occurred while executing the OData request">>
        withStatus ==
            IF error.hasResponse /\ error.status # ""
              THEN <<"HTTP ", error.status>>
                   \o (IF error.statusText # "" THEN <<" ", error.statusText>> ELSE <<>>)
                   \o <<": ">> \o base
              ELSE base
        withData ==
            IF error.hasResponse /\ error.data # ""
              THEN withStatus \o <<"\n\nResponse: ">>
                   \o (IF error.dataIsString THEN <<error.data>> ELSE Stringify(error.data))
              ELSE withStatus
    IN withData

----------------------------------------------------------------------------
(* Response values *)

\* a single structured value returned by exchange number x (element n)
Obj(x, n) == [isArray |-> FALSE, src |-> x, n |-> n, elems |-> <<>>]
\* a JavaScript array of values
Arr(elems) == [isArray |-> TRUE, src |-> NoIndex, n |-> 0, elems |-> elems]

\* variant: the response is wrapped without the Array.isArray test
Normalize_AlwaysWraps(response) == Arr(<<response>>)

\* if (!Array.isArray(response)) response = [response]
Normalize(response) ==
    IF ~response.isArray THEN Arr(<<response>>) ELSE response

\* fetchData, lines 679-685: Array.isArray(data) ? data : [data]
fetchData(data) ==
    IF ~data.isArray THEN Arr(<<data>>) ELSE data

\* for (let obj of response) newitems.push({ json: obj, pairedItem: { item: itemIndex } })
\* (the pushed entry has no error key)
PushAll(list, response, idx) ==
    list \o [j \in 1..Len(response.elems) |->
                [json |-> response.elems[j], pairedItem |-> idx, hasError |-> FALSE]]

\* headers of the direct fetch, lines 668-672
FetchHeaders(headers) ==
    Spread(<<[k |-> <<"A", "c", "c", "e", "p", "t">>, v |-> <<"application/json">>],
             [k |-> <<"C", "o", "n", "t", "e", "n", "t", "-", "T", "y", "p", "e">>,
              v |-> <<"application/json">>]>>,
           headers)

----------------------------------------------------------------------------
(* Parameter values getNodeParameter hands out *)

Methods == {"GET", "POST", "PATCH", "DELETE", ""}

BaseParams ==
    [method |-> "GET", url |-> <<"h", "/">>, query |-> "",
     select |-> Str(<<>>), filter |-> Str(<<>>), orderby |-> Str(<<>>),
     expand |-> Str(<<>>), top |-> Str(<<>>), skip |-> Str(<<>>),
     count |-> Str(<<>>), data |-> "",
     sendHeaders |-> FALSE, specifyHeaders |-> "keypair",
     headerParameters |-> <<>>, jsonHeaders |-> ""]

\* parameters of the records of a run
RunParams ==
    {[BaseParams EXCEPT !.method = m, !.count = c] :
        m \in Methods, c \in {Str(<<>>), Bool(TRUE)}}
    \cup {[BaseParams EXCEPT !.query = "{bad"],
          [BaseParams EXCEPT !.method = "POST", !.data = "{\"UserName\":\"newuser\"}"],
          [BaseParams EXCEPT !.sendHeaders = TRUE, !.specifyHeaders = "json",
                             !.jsonHeaders = "{bad"]}

\* parameters for the query descriptor on its own
QueryParams ==
    {[BaseParams EXCEPT !.query = q, !.select = se, !.filter = f, !.orderby = o,
                        !.expand = e, !.top = t, !.skip = sk, !.count = c] :
        q  \in {"", "{}", "null", "{\"$top\":5}",
                "{\"$filter\":\"b eq 2\",\"$count\":true}"},
        se \in {Str(<<>>), Str(<<"a", ",", " ", "b">>)},
        f  \in {Str(<<>>), Str(FilterText)},
        o  \in {Str(<<>>), Str(<<"a", " ", "d">>)},
        e  \in {Str(<<>>), Str(<<"c", " ">>)},
        t  \in {Str(<<>>), Str(<<"0">>), Num(0), Num(5)},
        sk \in {Str(<<>>), Num(0), Num(3)},
        c  \in {Str(<<>>), Bool(FALSE), Bool(TRUE)}}

\* parameters for the header map on its own
HeaderParams ==
    {[BaseParams EXCEPT !.url = u, !.sendHeaders = sh, !.specifyHeaders = sp,
                        !.headerParameters = hp, !.jsonHeaders = jh] :
        u  \in {<<"h">>, <<"h", "/">>},
        sh \in BOOLEAN,
        sp \in {"keypair", "json"},
        hp \in {<<>>,
                <<[name |-> <<>>, value |-> <<"">>]>>,
                <<[name |-> TraceName, value |-> <<"1">>]>>,
                <<[name |-> LowerAuthorizationName, value |-> <<"u">>]>>,
                <<[name |-> AuthorizationName, value |-> <<"u">>],
                  [name |-> TraceName, value |-> <<"1">>]>>,
                <<[name |-> TraceName, value |-> <<"1">>],
                  [name |-> LowerTraceName, value |-> <<"2">>]>>},
        jh \in {"", "{}", "{\"X-T\":\"1\"}", "{\"authorization\":\"u\"}",
                "{\"X-T\":\"1\",\"x-t\":\"2\"}"}}

\* credential material the host can return for a generic auth type
Credentials(genericCredentialType) ==
    CASE genericCredentialType = "oAuth2Api" ->
            {OAuthCred("none"), OAuthCred("object"),
             OAuthCred("{\"access_token\":\"tok\"}"), OAuthCred("{bad")}
      [] genericCredentialType = "basicAuth" -> {BasicCred("u", "p")}
      [] genericCredentialType = "httpCustomAuth" ->
            {CustomCred(""), CustomCred("{\"headers\":{\"X-T\":\"k\"}}"),
             CustomCred("{\"headers\":{\"Authorization\":\"k\"}}"), CustomCred("{bad")}
      [] OTHER -> {}

\* (authentication, genericAuthType) of a run
AuthModes ==
    {[authentication |-> "none", genericAuthType |-> ""],
     [authentication |-> "genericCredentialType", genericAuthType |-> "basicAuth"]}

----------------------------------------------------------------------------
(* State of one run of execute *)

VARIABLES
    continueOnFail,   \* this.continueOnFail()
    authentication,   \* getNodeParameter('authentication', 0)
    genericAuthType,  \* getNodeParameter('genericAuthType', 0)
    nInput,           \* number of records getInputData() returned at the start
    items,            \* the array returned by getInputData()
    itemIndex,        \* loop counter
    pc,               \* position of the run
    oAuth2Api,        \* var oAuth2Api (function scoped)
    basicAuth,        \* var basicAuth (function scoped)
    httpCustomAuth,   \* let httpCustomAuth (per iteration)
    params,           \* parameters read for the current record
    req,              \* url, method, query, data, count, customHeaders.headers
    inflight,         \* the request on the wire
    response,         \* let response (declared before the loop)
    newitems,         \* the records returned by the run
    thrown,           \* the error execute rejected with
    exchanges,        \* history: network exchanges issued
    attempts,         \* history: item indexes the loop body was entered with
    failed,           \* history: item indexes whose processing threw
    received,         \* history: raw response payload per item index
    lastHttp          \* history: the non-2xx answer the last dispatch ended with

vars == <<continueOnFail, authentication, genericAuthType, nInput, items, itemIndex,
          pc, oAuth2Api, basicAuth, httpCustomAuth, params, req, inflight, response,
          newitems, thrown, exchanges, attempts, failed, received, lastHttp>>

config == <<continueOnFail, authentication, genericAuthType, nInput>>
history == <<exchanges, attempts, failed, received, lastHttp>>

NoRequest ==
    [path |-> "none", verb |-> "", url |-> <<>>, query |-> <<>>,
     hasBody |-> FALSE, body |-> <<>>, headers |-> <<>>]

NoHttp == [item |-> NoIndex, status |-> "", statusText |-> "", data |-> "",
           dataIsString |-> FALSE]

NoReceived == [i \in {} |-> Obj(0, 0)]

\* entries of `items`; the json and error fields of an entry are never read
InputItem(i) == [kind |-> "input", pairedItem |-> i]
ErrorItem(i) == [kind |-> "error", pairedItem |-> i]

InitLocals ==
    /\ itemIndex = 0
    /\ oAuth2Api = NoCred
    /\ basicAuth = NoCred
    /\ httpCustomAuth = NoCred
    /\ req = BuildFail(MkError(<<>>))
    /\ inflight = NoRequest
    /\ response = Arr(<<>>)
    /\ newitems = <<>>
    /\ thrown = MkError(<<>>)
    /\ exchanges = <<>>
    /\ attempts = <<>>
    /\ failed = {}
    /\ received = NoReceived
    /\ lastHttp = NoHttp

Init ==
    /\ continueOnFail \in BOOLEAN
    /\ \E m \in AuthModes :
          /\ authentication = m.authentication
          /\ genericAuthType = m.genericAuthType
    /\ nInput \in 1..MaxItems
    /\ items = [i \in 1..nInput |-> InputItem(i - 1)]
    /\ pc = "auth"
    /\ params = BaseParams
    /\ InitLocals

----------------------------------------------------------------------------
(* The catch handler, lines 610-653 *)

\* items.push({ json: this.getInputData(itemIndex)[0].json, error, pairedItem })
\* getInputData(0) is the array `items` itself; for another index the host
\* decides whether an input with that number exists.
CatchContinue(error) ==
    \E inputExists \in (IF itemIndex = 0 THEN {TRUE} ELSE BOOLEAN) :
        IF inputExists
          THEN /\ items' = Append(items, ErrorItem(itemIndex))
               /\ itemIndex' = itemIndex + 1
               /\ pc' = "auth"
               /\ thrown' = thrown
          ELSE /\ items' = items
               /\ itemIndex' = itemIndex
               /\ pc' = "thrown"
               /\ thrown' = MkError(<<"Cannot read properties of undefined">>)

CatchFailFast(error) ==
    /\ items' = items
    /\ itemIndex' = itemIndex
    /\ pc' = "thrown"
    /\ thrown' = IF error.hasContext
                   THEN [error EXCEPT !.itemIndex = itemIndex]
                   ELSE NodeOperationError(ErrorMessage(error), itemIndex)

Catch(error) ==
    /\ failed' = failed \cup {itemIndex}
    /\ IF continueOnFail THEN CatchContinue(error) ELSE CatchFailFast(error)

----------------------------------------------------------------------------
(* The verb switch, lines 567-596 *)

VerbTable == {"GET", "POST", "PATCH", "DELETE"}

\* GET with count goes to fetchData, everything else to the odata handler
DispatchPath(b) == IF b.method = "GET" /\ Truthy(b.count) THEN "fetch" ELSE "odata"

\* the request a built record puts on the wire
Request(b) ==
    [path |-> DispatchPath(b),
     verb |-> b.method,
     url |-> b.url,
     query |-> b.query,
     hasBody |-> b.method \in {"POST", "PATCH"},
     body |-> IF b.method \in {"POST", "PATCH"} THEN b.data ELSE <<>>,
     headers |-> IF DispatchPath(b) = "fetch" THEN FetchHeaders(b.headers) ELSE b.headers]

----------------------------------------------------------------------------
(* The loop *)

\* lines 391-418 when the credential lookup (if any) succeeds
ResolveCredentials ==
    /\ pc = "auth"
    /\ itemIndex < Len(items)
    /\ itemIndex < MaxAttempts
    /\ attempts' = Append(attempts, itemIndex)
    /\ httpCustomAuth' \in
          (IF authentication = "genericCredentialType" /\ genericAuthType = "httpCustomAuth"
             THEN Credentials("httpCustomAuth") ELSE {NoCred})
    /\ oAuth2Api' \in
          (IF authentication = "genericCredentialType" /\ genericAuthType = "oAuth2Api"
             THEN Credentials("oAuth2Api") ELSE {oAuth2Api})
    /\ basicAuth' \in
          (IF authentication = "genericCredentialType" /\ genericAuthType = "basicAuth"
             THEN Credentials("basicAuth") ELSE {basicAuth})
    /\ pc' = "build"
    /\ UNCHANGED <<config, items, itemIndex, params, req, inflight, response, newitems,
                   thrown, exchanges, failed, received, lastHttp>>

\* lines 409-417 when getCredentials rejects: the call is outside the try block
CredentialsFail ==
    /\ pc = "auth"
    /\ itemIndex < Len(items)
    /\ itemIndex < MaxAttempts
    /\ authentication = "genericCredentialType"
    /\ genericAuthType \in {"oAuth2Api", "basicAuth", "httpCustomAuth"}
    /\ attempts' = Append(attempts, itemIndex)
    /\ failed' = failed \cup {itemIndex}
    /\ pc' = "thrown"
    /\ \E hostIndex \in {NoIndex, itemIndex} :
          thrown' = IF hostIndex = NoIndex
                      THEN MkError(<<"Node does not have any credentials set">>)
                      ELSE NodeOperationError(<<"Node does not have any credentials set">>,
                                              hostIndex)
    /\ UNCHANGED <<config, items, itemIndex, oAuth2Api, basicAuth, httpCustomAuth, params,
                   req, inflight, response, newitems, exchanges, received, lastHttp>>

\* lines 420-564 when parsing or header resolution throws
BuildFails ==
    /\ pc = "build"
    /\ \E p \in RunParams :
          LET b == BuildRequest(p, oAuth2Api, basicAuth, httpCustomAuth, itemIndex) IN
          /\ ~b.ok
          /\ params' = p
          /\ Catch(b.error)
    /\ UNCHANGED <<config, oAuth2Api, basicAuth, httpCustomAuth, req, inflight, response,
                   newitems, exchanges, attempts, received, lastHttp>>

\* lines 420-596 for a method of the verb table: the request goes out
Send ==
    /\ pc = "build"
    /\ \E p \in RunParams :
          LET b == BuildRequest(p, oAuth2Api, basicAuth, httpCustomAuth, itemIndex) IN
          /\ b.ok
          /\ b.method \in VerbTable
          /\ params' = p
          /\ req' = b
          /\ inflight' = Request(b)
          /\ exchanges' = Append(exchanges, [item |-> itemIndex, path |-> DispatchPath(b)])
    /\ pc' = "waiting"
    /\ UNCHANGED <<config, items, itemIndex, oAuth2Api, basicAuth, httpCustomAuth,
                   response, newitems, thrown, attempts, failed, received, lastHttp>>

\* lines 567-608 for a method outside the verb table: no case of the switch matches
FallThrough ==
    /\ pc = "build"
    /\ \E p \in RunParams :
          LET b == BuildRequest(p, oAuth2Api, basicAuth, httpCustomAuth, itemIndex) IN
          /\ b.ok
          /\ b.method \notin VerbTable
          /\ params' = p
          /\ req' = b
    /\ response' = Normalize(response)
    /\ newitems' = PushAll(newitems, Normalize(response), itemIndex)
    /\ itemIndex' = itemIndex + 1
    /\ pc' = "auth"
    /\ UNCHANGED <<config, items, oAuth2Api, basicAuth, httpCustomAuth, inflight, thrown,
                   exchanges, attempts, failed, received, lastHttp>>

\* payloads the service can answer exchange x with
Payloads(x) ==
    {Obj(x, 0)} \cup {Arr([j \in 1..k |-> Obj(x, j)]) : k \in 0..MaxResp}

\* lines 573-608 after a 2xx answer
ReceiveResponse ==
    /\ pc = "waiting"
    /\ \E data \in Payloads(itemIndex) :
          LET raw == IF inflight.path = "fetch" THEN fetchData(data) ELSE data IN
          /\ received' = (itemIndex :> data) @@ received
          /\ response' = Normalize(raw)
          /\ newitems' = PushAll(newitems, Normalize(raw), itemIndex)
    /\ inflight' = NoRequest
    /\ itemIndex' = itemIndex + 1
    /\ pc' = "auth"
    /\ UNCHANGED <<config, items, oAuth2Api, basicAuth, httpCustomAuth, params, req,
                   thrown, exchanges, attempts, failed, lastHttp>>

Bodies == {[data |-> "", isString |-> FALSE],
           [data |-> "{\"error\":\"missing\"}", isString |-> FALSE]}

\* what the await rejects with when the service answers with a non-2xx status:
\* fetchData throws its own Error (line 676); the odata handler is a library
\* whose rejection either carries the response or is a bare object.
HttpFailures(path, status, statusText, body) ==
    IF path = "fetch"
      THEN {MkError(<<"HTTP error! Status: ", status>>)}
      ELSE {HttpError(<<"Request failed">>, status, statusText, body.data, body.isString),
            BareObject}

\* lines 573-594 when the answer is non-2xx
ReceiveHttpError ==
    /\ pc = "waiting"
    /\ \E body \in Bodies :
          /\ lastHttp' = [item |-> itemIndex, status |-> "404", statusText |-> "Not Found",
                          data |-> body.data, dataIsString |-> body.isString]
          /\ \E error \in HttpFailures(inflight.path, "404", "Not Found", body) :
                Catch(error)
    /\ inflight' = NoRequest
    /\ UNCHANGED <<config, oAuth2Api, basicAuth, httpCustomAuth, params, req, response,
                   newitems, exchanges, attempts, received>>

\* lines 573-594 when the exchange itself fails (no HTTP answer)
ReceiveNetworkError ==
    /\ pc = "waiting"
    /\ Catch(MkError(<<"fetch failed">>))
    /\ inflight' = NoRequest
    /\ UNCHANGED <<config, oAuth2Api, basicAuth, httpCustomAuth, params, req, response,
                   newitems, exchanges, attempts, received, lastHttp>>

\* line 658: the loop ends and the run returns newitems
Return ==
    /\ pc = "auth"
    /\ itemIndex >= Len(items)
    /\ pc' = "returned"
    /\ UNCHANGED <<config, items, itemIndex, oAuth2Api, basicAuth, httpCustomAuth, params,
                   req, inflight, response, newitems, thrown, history>>

Next ==
    \/ ResolveCredentials
    \/ CredentialsFail
    \/ BuildFails
    \/ Send
    \/ FallThrough
    \/ ReceiveResponse
    \/ ReceiveHttpError
    \/ ReceiveNetworkError
    \/ Return

Spec == Init /\ [][Next]_vars

----------------------------------------------------------------------------
(* The request builder on its own: parameters and credentials drawn from   *)
(* wider sets, one application of BuildRequest                             *)

InitBuild ==
    /\ continueOnFail = FALSE
    /\ authentication = "none"
    /\ genericAuthType = ""
    /\ nInput = 1
    /\ items = <<InputItem(0)>>
    /\ pc = "build"
    /\ itemIndex = 0
    /\ req = BuildFail(MkError(<<>>))
    /\ inflight = NoRequest
    /\ response = Arr(<<>>)
    /\ newitems = <<>>
    /\ thrown = MkError(<<>>)
    /\ exchanges = <<>>
    /\ attempts = <<0>>
    /\ failed = {}
    /\ received = NoReceived
    /\ lastHttp = NoHttp
    /\ \/ /\ params \in QueryParams
          /\ oAuth2Api = NoCred /\ basicAuth = NoCred /\ httpCustomAuth = NoCred
       \/ /\ params \in HeaderParams
          /\ \/ oAuth2Api = NoCred /\ basicAuth = NoCred /\ httpCustomAuth = NoCred
             \/ oAuth2Api \in Credentials("oAuth2Api")
                /\ basicAuth = NoCred /\ httpCustomAuth = NoCred
             \/ basicAuth \in Credentials("basicAuth")
                /\ oAuth2Api = NoCred /\ httpCustomAuth = NoCred
             \/ httpCustomAuth \in Credentials("httpCustomAuth")
                /\ oAuth2Api = NoCred /\ basicAuth = NoCred

\* lines 420-564 applied to the drawn parameters
Build ==
    /\ pc = "build"
    /\ req' = BuildRequest(params, oAuth2Api, basicAuth, httpCustomAuth, itemIndex)
    /\ pc' = "built"
    /\ UNCHANGED <<config, items, itemIndex, oAuth2Api, basicAuth, httpCustomAuth, params,
                   inflight, response, newitems, thrown, history>>

\* lines 567-596 for the built request: it goes out
Dispatch ==
    /\ pc = "built"
    /\ req.ok
    /\ req.method \in VerbTable
    /\ inflight' = Request(req)
    /\ exchanges' = Append(exchanges, [item |-> itemIndex, path |-> DispatchPath(req)])
    /\ pc' = "waiting"
    /\ UNCHANGED <<config, items, itemIndex, oAuth2Api, basicAuth, httpCustomAuth, params,
                   req, response, newitems, thrown, attempts, failed, received, lastHttp>>

NextBuild == Build \/ Dispatch

SpecBuild == InitBuild /\ [][NextBuild]_vars

----------------------------------------------------------------------------
(* Properties *)

InputIndexes == 0..(nInput - 1)

\* the entries of the output tagged with item index i
Tagged(out, i) == SelectSeq(out, LAMBDA r : r.pairedItem = i)

IsPrefix(pre, seq) ==
    /\ Len(pre) <= Len(seq)
    /\ \A j \in 1..Len(pre) : seq[j] = pre[j]

Contains(seq, sub) ==
    \E off \in 0..(Len(seq) - Len(sub)) :
        \A j \in 1..Len(sub) : seq[off + j] = sub[j]

Exchanged(i) == {j \in 1..Len(exchanges) : exchanges[j].item = i}

Finished == pc \in {"returned", "thrown"}

\* C1: in continue-on-failure mode, when exactly one record k fails and every
\* other record's response is a single object, the run returns N entries:
\* one OutputRecord per other record and exactly one ErrorReport, tagged k.
C1_OneErrorReportPerFailure ==
    \A k \in InputIndexes :
        ( /\ continueOnFail
          /\ Finished
          /\ failed = {k}
          /\ \A i \in InputIndexes \ {k} :
                i \in DOMAIN received /\ ~received[i].isArray )
        => /\ pc = "returned"
           /\ Len(newitems) = nInput
           /\ \A i \in InputIndexes \ {k} :
                 /\ Len(Tagged(newitems, i)) = 1
                 /\ ~Tagged(newitems, i)[1].hasError
           /\ Len(Tagged(newitems, k)) = 1
           /\ Tagged(newitems, k)[1].hasError

\* C2: in continue-on-failure mode, when the run has returned, the input
\* indexes 0..N-1 have each been attempted exactly once, in order, and no
\* other attempt has been made.
C2_EveryInputAttemptedOnce ==
    (continueOnFail /\ pc = "returned")
        => attempts = [j \in 1..nInput |-> j - 1]

\* C3: in fail-fast mode the first failing record k aborts the run: nothing
\* beyond k is attempted or dispatched, no output is returned, and the error
\* surfaced carries itemIndex = k.
C3_FailFastAborts ==
    \A k \in failed :
        ~continueOnFail
        => /\ pc = "thrown"
           /\ failed = {k}
           /\ \A j \in 1..Len(attempts) : attempts[j] <= k
           /\ \A j \in 1..Len(exchanges) : exchanges[j].item <= k
           /\ thrown.itemIndex = k

StringField(v) == v.t = "str" /\ Len(v.s) > 0
ExplicitlySet(v) == v.t \in {"num", "bool"}

\* C4: with an empty or absent raw query, a $-key is in the descriptor iff
\* its source is a non-empty string (select, filter, orderby, expand) or an
\* explicitly set number or boolean (top, skip, count; 0 and false count as
\* set, the unset default does not).
C4_KeyPresentIffSourceSet ==
    (pc = "built" /\ req.ok /\ params.query \in {"", "{}"})
        => /\ "$select"  \in Keys(req.query) <=> StringField(params.select)
           /\ "$filter"  \in Keys(req.query) <=> StringField(params.filter)
           /\ "$orderby" \in Keys(req.query) <=> StringField(params.orderby)
           /\ "$expand"  \in Keys(req.query) <=> StringField(params.expand)
           /\ "$top"     \in Keys(req.query) <=> ExplicitlySet(params.top)
           /\ "$skip"    \in Keys(req.query) <=> ExplicitlySet(params.skip)
           /\ "$count"   \in Keys(req.query) <=> ExplicitlySet(params.count)

RawQuery == JSONParse(OrElse(params.query, "{}"))
RawIsNonEmptyMapping == RawQuery.ok /\ ~RawQuery.isNull /\ Len(RawQuery.obj) > 0

\* C5: when the raw query parses to a non-empty mapping, the descriptor of
\* the built request and of the request put on the wire is the parsed raw
\* query, entry for entry, whatever the discrete fields hold.
C5_RawQueryVerbatim ==
    RawIsNonEmptyMapping
        => /\ (pc \in {"built", "waiting"} /\ req.ok => req.query = RawQuery.obj)
           /\ (pc = "waiting" => inflight.query = RawQuery.obj)

C5_Witness ==
    /\ pc = "waiting"
    /\ params.query = "{\"$top\":5}"
    /\ Truthy(params.filter) /\ Truthy(params.select) /\ params.count = Bool(TRUE)
    /\ inflight.query = <<[k |-> "$top", v |-> Num(5)]>>

\* C6: for every record that received a response, the output entries tagged
\* with it are the elements of the response in arrival order when it is an
\* array, and the one value itself otherwise; and output entries are ordered
\* by input index.
C6_FlatOutputInOrder ==
    /\ \A i \in DOMAIN received :
          LET tagged == Tagged(newitems, i)
              expected == IF received[i].isArray THEN received[i].elems
                          ELSE <<received[i]>>
          IN /\ Len(tagged) = Len(expected)
             /\ \A j \in 1..Len(expected) : tagged[j].json = expected[j]
    /\ \A a, b \in 1..Len(newitems) :
          a < b => newitems[a].pairedItem <= newitems[b].pairedItem

C6_Witness ==
    /\ pc = "returned"
    /\ 0 \in DOMAIN received /\ ~received[0].isArray
    /\ 1 \in DOMAIN received /\ received[1].isArray /\ Len(received[1].elems) = 2
    /\ Len(Tagged(newitems, 0)) = 1
    /\ Len(Tagged(newitems, 1)) = 2

\* C7: in fail-fast mode, when the dispatch of the failing record ended with
\* a non-2xx status S and status text T, the message of the error surfaced
\* begins with "HTTP S T:" and contains the serialized body when there is one.
C7_HttpFailureMessage ==
    (~continueOnFail /\ pc = "thrown" /\ lastHttp.item = itemIndex)
        => /\ IsPrefix(<<"HTTP ", lastHttp.status, " ", lastHttp.statusText, ": ">>,
                       thrown.message)
           /\ lastHttp.data # ""
                => Contains(thrown.message,
                            IF lastHttp.dataIsString THEN <<lastHttp.data>>
                            ELSE Stringify(lastHttp.data))

\* C8: every record that was built and processed without failure had
\* exactly one network exchange issued for it, and no record ever has more
\* than one.
C8_ExactlyOneExchange ==
    /\ \A i \in 0..(itemIndex - 1) :
          i \notin failed => Cardinality(Exchanged(i)) = 1
    /\ \A i \in 0..itemIndex : Cardinality(Exchanged(i)) <= 1

\* C9: with sendHeaders enabled, the header map of the built request never
\* holds two different keys that are equal ignoring case.
C9_HeaderNamesUniqueIgnoringCase ==
    (pc \in {"built", "waiting"} /\ req.ok /\ params.sendHeaders)
        => \A a, b \in Keys(req.headers) :
              ToLowerCase(a) = ToLowerCase(b) => a = b

\* C10: every output entry tagged with item index i carries a payload that
\* came from the exchange performed for record i.
C10_NoPayloadLeak ==
    \A j \in 1..Len(newitems) : newitems[j].json.src = newitems[j].pairedItem

====
